---- MODULE Spec2Model ----
(***************************************************************************)
(* Patch normalization and multi-agent voting of Prometheus.               *)
(*                                                                         *)
(* Numbers with a fractional part are kept as scaled integers:             *)
(*   dimension scores and confidences in tenths (50 is 5.0, 1 is 0.1),     *)
(*   early_stopping_threshold in tenths (6 is 0.6),                        *)
(*   weighted total scores in thousandths (get_total_score),               *)
(*   quotients as pairs <<numerator, denominator>>.                        *)
(* A Counter / dict is a sequence of [key, count] records in insertion     *)
(* order, which is the order Python iterates it in.                        *)
(***************************************************************************)
EXTENDS Integers, Sequences, FiniteSets, TLC

VARIABLES
    edit_patches,             \* state["edit_patches"], the raw candidate patches
    normalized_patches,       \* state["normalized_patches"]
    entry,                    \* which interface the caller uses
    pc,                       \* position of the control flow
    num_voting_agents,        \* AgentVotingNode.num_voting_agents
    early_stopping_threshold, \* AgentVotingNode.early_stopping_threshold, tenths
    enable_early_stopping,    \* AgentVotingNode.enable_early_stopping
    agent_idx,                \* position of the for loop over agent_configs
    try_index,                \* evaluate_patches: try_index of the retry loop
    agent_evaluations,        \* execute_parallel_voting: agent_evaluations
    vote_counter,             \* execute_parallel_voting: vote_counter
    voting_result,            \* <<>> or <<VotingResult>> returned by execute_parallel_voting
    raised,                   \* exception that left execute_parallel_voting, or "none"
    node_output,              \* <<>> or <<dict>> returned by AgentVotingNode.__call__
    presented,                \* patches argument of the latest evaluate_patches call
    evaluated_by,             \* agent ids whose evaluate_patches was called, in order
    failed_agents,            \* agent ids whose evaluate_patches raised to the coordinator
    defaulted_agents,         \* agent ids whose evaluate_patches returned the default
    model_invocations,        \* self.model.invoke calls of the latest evaluate_patches call
    consensus_checks,         \* number of _check_early_consensus calls so far
    broke,                    \* the for loop was left by break
    model_outputs,            \* the score profiles self.model.invoke answers with
    first_run,                \* <<>> or <<what an earlier session on this input did>>
    metrics_args,             \* <<>> or the arguments of a _calculate_complexity_score call
    complexity_score          \* <<>> or <<what that call returned>>

vars == <<edit_patches, normalized_patches, entry, pc, num_voting_agents,
          early_stopping_threshold, enable_early_stopping, agent_idx, try_index,
          agent_evaluations, vote_counter, voting_result, raised, node_output,
          presented, evaluated_by, failed_agents, defaulted_agents,
          model_invocations, consensus_checks, broke, model_outputs,
          first_run, metrics_args, complexity_score>>

(***************************************************************************)
(* Bounds of the model                                                     *)
(***************************************************************************)
MaxAgents == 5
MaxPatches == 3
\* lines of a diff text given to the Normalizer on its own
MaxLines == 2
\* added lines, removed lines and files of a _calculate_complexity_score call
MaxChangedLines == 55
MaxFiles == 3
\* agents of the sessions with differing scores
MaxTieAgents == 4

(***************************************************************************)
(* Program constants                                                       *)
(***************************************************************************)
\* EnhancedFinalPatchSelectionNode.__init__(max_retries=2); the coordinator
\* never passes another value.
max_retries == 2

\* AgentVotingNode.__init__(early_stopping_threshold=0.6), in tenths
default_threshold == 6

\* early_stopping_threshold values of the presets, in tenths.
Thresholds == {6, 7, 10}

(***************************************************************************)
(* Arithmetic helpers                                                      *)
(***************************************************************************)
\* math.ceil(a / b) for a >= 0, b > 0
Ceil(a, b) == (a + b - 1) \div b

RECURSIVE SeqSum(_)
SeqSum(s) == IF s = <<>> THEN 0 ELSE Head(s) + SeqSum(Tail(s))

SeqMax(s) == CHOOSE x \in {s[i] : i \in DOMAIN s} : \A j \in DOMAIN s : s[j] <= x
SeqMin(s) == CHOOSE x \in {s[i] : i \in DOMAIN s} : \A j \in DOMAIN s : s[j] >= x

(***************************************************************************)
(* Text.  A str is the sequence of its characters; "\n" ends a line and     *)
(* " ", "\t" and "\n" are the whitespace of the texts considered.          *)
(***************************************************************************)
IsSpace(ch) == ch \in {" ", "\t", "\n"}
IsDigit(ch) == ch \in {"0", "1", "2", "3", "4", "5", "6", "7", "8", "9"}
IsHex(ch)   == IsDigit(ch) \/ ch \in {"a", "b", "c", "d", "e", "f"}

RECURSIVE rstrip(_)
rstrip(s) ==
    IF s = <<>> \/ ~IsSpace(s[Len(s)]) THEN s ELSE rstrip(SubSeq(s, 1, Len(s) - 1))

RECURSIVE lstrip(_)
lstrip(s) == IF s = <<>> \/ ~IsSpace(s[1]) THEN s ELSE lstrip(Tail(s))

strip(s) == lstrip(rstrip(s))

startswith(s, prefix) == Len(s) >= Len(prefix) /\ SubSeq(s, 1, Len(prefix)) = prefix

\* str.splitlines(): the lines without their "\n"; no empty last line.
RECURSIVE splitlines(_)
splitlines(text) ==
    IF text = <<>> THEN <<>>
    ELSE IF \A i \in DOMAIN text : text[i] # "\n" THEN <<text>>
    ELSE LET k == CHOOSE i \in DOMAIN text :
                    text[i] = "\n" /\ \A j \in 1..(i - 1) : text[j] # "\n"
         IN  <<SubSeq(text, 1, k - 1)>> \o splitlines(SubSeq(text, k + 1, Len(text)))

\* '\n'.join(lines)
RECURSIVE join(_)
join(lines) ==
    IF lines = <<>> THEN <<>>
    ELSE IF Len(lines) = 1 THEN lines[1]
    ELSE lines[1] \o <<"\n">> \o join(Tail(lines))

\* str.expandtabs(tabsize) of a text without "\n", from column col on
RECURSIVE ExpandTabsFrom(_, _, _)
ExpandTabsFrom(s, tabsize, col) ==
    IF s = <<>> THEN <<>>
    ELSE IF s[1] = "\t"
         THEN LET n == tabsize - (col % tabsize)
              IN  [i \in 1..n |-> " "] \o ExpandTabsFrom(Tail(s), tabsize, col + n)
         ELSE <<s[1]>> \o ExpandTabsFrom(Tail(s), tabsize, col + 1)

expandtabs(s, tabsize) == ExpandTabsFrom(s, tabsize, 0)

\* The position behind the digits that start at position i of s (\d*).
RECURSIVE SkipDigits(_, _)
SkipDigits(s, i) == IF i <= Len(s) /\ IsDigit(s[i]) THEN SkipDigits(s, i + 1) ELSE i

\* The literal lit stands at position i of s.
LitAt(s, i, lit) == i + Len(lit) - 1 <= Len(s) /\ SubSeq(s, i, i + Len(lit) - 1) = lit

(***************************************************************************)
(* PatchNormalizationNode._is_metadata_line                                *)
(***************************************************************************)
\* r'^@@ -\d+,\d+ \+\d+,\d+ @@'
MatchesChunkHeader(line) ==
    LET a == 5
        b == SkipDigits(line, a)
        c == SkipDigits(line, b + 1)
        d == SkipDigits(line, c + 2)
        e == SkipDigits(line, d + 1)
    IN  /\ LitAt(line, 1, <<"@", "@", " ", "-">>)
        /\ b > a /\ LitAt(line, b, <<",">>)
        /\ c > b + 1 /\ LitAt(line, c, <<" ", "+">>)
        /\ d > c + 2 /\ LitAt(line, d, <<",">>)
        /\ e > d + 1 /\ LitAt(line, e, <<" ", "@", "@">>)

_is_metadata_line(line) ==
    \/ startswith(line, <<"d", "i", "f", "f", " ", "-", "-", "g", "i", "t">>)
    \/ startswith(line, <<"i", "n", "d", "e", "x", " ">>) /\ Len(line) >= 7 /\ IsHex(line[7])
    \/ MatchesChunkHeader(line)

(***************************************************************************)
(* PatchNormalizationNode._normalize_file_path                             *)
(***************************************************************************)
\* r'(\s+\d{4}-\d{2}-\d{2}.*)?$' matches a timestamp from position i on.
TimestampAt(line, i) ==
    \E j \in (i + 1)..Len(line) :
        /\ \A k \in i..(j - 1) : IsSpace(line[k])
        /\ j + 9 <= Len(line)
        /\ \A k \in {0, 1, 2, 3, 5, 6, 8, 9} : IsDigit(line[j + k])
        /\ line[j + 4] = "-" /\ line[j + 7] = "-"

\* r'^--- (.+?)(\s+\d{4}-\d{2}-\d{2}.*)?$' and its +++ twin: the marker, a
\* blank, and the shortest non-empty path a timestamp or the end follows.
_normalize_file_path(line) ==
    IF Len(line) >= 5 /\ line[4] = " "
       /\ (startswith(line, <<"-", "-", "-">>) \/ startswith(line, <<"+", "+", "+">>))
    THEN LET ends == {i \in 6..(Len(line) + 1) : i = Len(line) + 1 \/ TimestampAt(line, i)}
             stop == CHOOSE i \in ends : \A j \in ends : i <= j
         IN  SubSeq(line, 1, stop - 1)
    ELSE strip(line)

(***************************************************************************)
(* PatchNormalizationNode.normalize_patch                                  *)
(***************************************************************************)
\* The lines one line of the raw patch contributes to normalized_lines.
NormalizedLine(line) ==
    IF _is_metadata_line(line)
    THEN IF startswith(line, <<"-", "-", "-">>) \/ startswith(line, <<"+", "+", "+">>)
         THEN <<_normalize_file_path(line)>>
         ELSE <<>>
    ELSE IF startswith(line, <<"+">>) \/ startswith(line, <<"-">>)
    THEN << <<line[1]>> \o rstrip(expandtabs(Tail(line), 4)) >>
    ELSE IF startswith(line, <<" ">>)
    THEN << <<" ">> \o rstrip(expandtabs(Tail(line), 4)) >>
    ELSE <<strip(line)>>

RECURSIVE NormalizedLines(_)
NormalizedLines(lines) ==
    IF lines = <<>> THEN <<>>
    ELSE NormalizedLine(Head(lines)) \o NormalizedLines(Tail(lines))

normalize_patch(raw_patch) ==
    IF strip(raw_patch) = <<>> THEN <<>>
    ELSE join(NormalizedLines(splitlines(raw_patch)))

(***************************************************************************)
(* PatchNormalizationNode.calculate_patch_metrics                          *)
(***************************************************************************)
\* _extract_file_path: r'^--- (.+)$' / r'^\+\+\+ (.+)$', stripped, without a
\* leading a/ or b/; "" when the line does not match.
_extract_file_path(line) ==
    IF Len(line) >= 5 /\ line[4] = " "
       /\ (startswith(line, <<"-", "-", "-">>) \/ startswith(line, <<"+", "+", "+">>))
    THEN LET path == strip(SubSeq(line, 5, Len(line)))
         IN  IF startswith(path, <<"a", "/">>) \/ startswith(path, <<"b", "/">>)
             THEN SubSeq(path, 3, Len(path))
             ELSE path
    ELSE <<>>

IsHeaderLine(line) ==
    startswith(line, <<"+", "+", "+">>) \/ startswith(line, <<"-", "-", "-">>)

DevNull == <<"/", "d", "e", "v", "/", "n", "u", "l", "l">>

\* _calculate_complexity_score as the quotient <<numerator, denominator>>:
\*   min(10, total * 0.1) * (1 + (files - 1) * 0.2) + removed / total * 0.5
\*     = (min(100, total) * (8 + 2 * files) * total + 50 * removed) / (100 * total)
\* capped at 10.
_calculate_complexity_score(total_changes, files_modified, lines_added, lines_removed) ==
    IF total_changes = 0 THEN <<0, 1>>
    ELSE LET base100 == IF total_changes < 100 THEN total_changes ELSE 100
             num == base100 * (8 + 2 * files_modified) * total_changes + 50 * lines_removed
             den == 100 * total_changes
         IN  IF num > 10 * den THEN <<10, 1>> ELSE <<num, den>>

calculate_patch_metrics(normalized_patch) ==
    IF strip(normalized_patch) = <<>>
    THEN [lines_added |-> 0, lines_removed |-> 0, files_modified |-> 0,
          total_changes |-> 0, complexity_score |-> <<0, 1>>, occurrence_count |-> 1]
    ELSE LET lines == splitlines(normalized_patch)
             added == {i \in DOMAIN lines :
                         ~IsHeaderLine(lines[i]) /\ startswith(lines[i], <<"+">>)}
             removed == {i \in DOMAIN lines :
                         ~IsHeaderLine(lines[i]) /\ startswith(lines[i], <<"-">>)}
             modified_files ==
                 {_extract_file_path(lines[i]) : i \in {j \in DOMAIN lines : IsHeaderLine(lines[j])}}
                     \ {<<>>, DevNull}
             total == Cardinality(added) + Cardinality(removed)
         IN  [lines_added |-> Cardinality(added),
              lines_removed |-> Cardinality(removed),
              files_modified |-> Cardinality(modified_files),
              total_changes |-> total,
              complexity_score |->
                  _calculate_complexity_score(total, Cardinality(modified_files),
                                              Cardinality(added), Cardinality(removed)),
              occurrence_count |-> 1]

(***************************************************************************)
(* PatchNormalizationNode.deduplicate_patches                              *)
(***************************************************************************)
\* Faulty variant: a repeated patch is recognised but not counted.
RECURSIVE DeduplicateFromWithoutCounting(_, _, _)
DeduplicateFromWithoutCounting(patches, i, unique) ==
    IF i >= Len(patches) THEN unique
    ELSE LET patch == patches[i + 1]
             normalized == normalize_patch(patch)
         IN  IF strip(patch) = <<>> \/ strip(normalized) = <<>>
             THEN DeduplicateFromWithoutCounting(patches, i + 1, unique)
             ELSE IF \E k \in DOMAIN unique : unique[k].normalized_content = normalized
             THEN DeduplicateFromWithoutCounting(patches, i + 1, unique)
             ELSE DeduplicateFromWithoutCounting(patches, i + 1,
                      Append(unique, [original_index |-> i,
                                      original_content |-> patch,
                                      normalized_content |-> normalized,
                                      metrics |-> calculate_patch_metrics(normalized)]))

\* Faulty variant: a repeated patch takes the place of the first one.
RECURSIVE DeduplicateFromKeepingLast(_, _, _)
DeduplicateFromKeepingLast(patches, i, unique) ==
    IF i >= Len(patches) THEN unique
    ELSE LET patch == patches[i + 1]
             normalized == normalize_patch(patch)
         IN  IF strip(patch) = <<>> \/ strip(normalized) = <<>>
             THEN DeduplicateFromKeepingLast(patches, i + 1, unique)
             ELSE IF \E k \in DOMAIN unique : unique[k].normalized_content = normalized
             THEN DeduplicateFromKeepingLast(patches, i + 1,
                      [k \in DOMAIN unique |->
                          IF unique[k].normalized_content = normalized
                          THEN [unique[k] EXCEPT !.metrics.occurrence_count = @ + 1,
                                                 !.original_index = i,
                                                 !.original_content = patch]
                          ELSE unique[k]])
             ELSE DeduplicateFromKeepingLast(patches, i + 1,
                      Append(unique, [original_index |-> i,
                                      original_content |-> patch,
                                      normalized_content |-> normalized,
                                      metrics |-> calculate_patch_metrics(normalized)]))

\* The loop over enumerate(patches) from position i (0-based) on; unique is
\* unique_patches with the occurrence counts kept in the entries.
RECURSIVE DeduplicateFrom(_, _, _)
DeduplicateFrom(patches, i, unique) ==
    IF i >= Len(patches) THEN unique
    ELSE LET patch == patches[i + 1]
             normalized == normalize_patch(patch)
         IN  IF strip(patch) = <<>> \/ strip(normalized) = <<>>
             THEN DeduplicateFrom(patches, i + 1, unique)
             ELSE IF \E k \in DOMAIN unique : unique[k].normalized_content = normalized
             THEN DeduplicateFrom(patches, i + 1,
                      [k \in DOMAIN unique |->
                          IF unique[k].normalized_content = normalized
                          THEN [unique[k] EXCEPT !.metrics.occurrence_count = @ + 1]
                          ELSE unique[k]])
             ELSE DeduplicateFrom(patches, i + 1,
                      Append(unique, [original_index |-> i,
                                      original_content |-> patch,
                                      normalized_content |-> normalized,
                                      metrics |-> calculate_patch_metrics(normalized)]))

deduplicate_patches(patches) == DeduplicateFrom(patches, 0, <<>>)

(***************************************************************************)
(* PatchNormalizationNode.__call__                                         *)
(***************************************************************************)
\* Faulty variant: the key is (complexity_score, original_index).
SortsBeforeByComplexity(p, q) ==
    \/ p.metrics.complexity_score[1] * q.metrics.complexity_score[2]
         < q.metrics.complexity_score[1] * p.metrics.complexity_score[2]
    \/ /\ p.metrics.complexity_score[1] * q.metrics.complexity_score[2]
            = q.metrics.complexity_score[1] * p.metrics.complexity_score[2]
       /\ p.original_index < q.original_index

\* key(p) < key(q) for the sort key
\* (-occurrence_count, complexity_score, original_index)
SortsBefore(p, q) ==
    \/ p.metrics.occurrence_count > q.metrics.occurrence_count
    \/ /\ p.metrics.occurrence_count = q.metrics.occurrence_count
       /\ p.metrics.complexity_score[1] * q.metrics.complexity_score[2]
            < q.metrics.complexity_score[1] * p.metrics.complexity_score[2]
    \/ /\ p.metrics.occurrence_count = q.metrics.occurrence_count
       /\ p.metrics.complexity_score[1] * q.metrics.complexity_score[2]
            = q.metrics.complexity_score[1] * p.metrics.complexity_score[2]
       /\ p.original_index < q.original_index

\* list.sort: a stable insertion of every element behind the elements that do
\* not sort after it.
RECURSIVE SortPatches(_)
SortPatches(ps) ==
    IF ps = <<>> THEN <<>>
    ELSE LET rest == SortPatches(SubSeq(ps, 1, Len(ps) - 1))
             x == ps[Len(ps)]
             k == Cardinality({i \in DOMAIN rest : ~SortsBefore(x, rest[i])})
         IN  SubSeq(rest, 1, k) \o <<x>> \o SubSeq(rest, k + 1, Len(rest))

PatchNormalization(patches) ==
    IF patches = <<>> THEN <<>> ELSE SortPatches(deduplicate_patches(patches))

(***************************************************************************)
(* Raw patches of the voting sessions                                      *)
(***************************************************************************)
PatchA  == <<"+", "+", "+", " ", "b", "/", "f", "\n", "@", "@", " ", "-", "1", ",", "1", " ", "+", "1", ",", "1", " ", "@", "@", "\n", "+", "x">>
PatchA2 == <<"+", "+", "+", " ", "b", "/", "f", "\n", "@", "@", " ", "-", "2", ",", "1", " ", "+", "2", ",", "1", " ", "@", "@", "\n", "+", "x", " ">>
PatchB  == <<"+", "+", "+", " ", "b", "/", "f", "\n", "-", "x", "\n", "-", "y">>
PatchPool == <<PatchA, PatchA2, PatchB>>

\* The candidate lists of a session: one of every length up to MaxPatches,
\* taken from the cyclic pool A, A2, B (A and A2 differ in the chunk header
\* and in trailing whitespace only), and the list B, A, whose patches differ
\* in content.
PatchList(n, s) == [k \in 1..n |-> PatchPool[((k - 1 + s) % Len(PatchPool)) + 1]]
SessionPatchLists == {PatchList(n, 0) : n \in 0..MaxPatches} \cup {PatchList(2, 2)}

(***************************************************************************)
(* EnhancedPatchSelectionStructuredOutput                                  *)
(***************************************************************************)
Evaluation(idx, e, p, m, s, r, c) ==
    [patch_index |-> idx,
     effectiveness_score |-> e,
     preservation_score |-> p,
     minimality_score |-> m,
     style_coherence_score |-> s,
     repository_impact_score |-> r,
     overall_confidence |-> c]

\* get_total_score, in thousandths
get_total_score(ev) ==
      ev.effectiveness_score * 35
    + ev.preservation_score * 30
    + ev.repository_impact_score * 15
    + ev.minimality_score * 10
    + ev.style_coherence_score * 10

\* Faulty variant: the default evaluation has the middle confidence 0.5.
DefaultEvaluationHalfConfident == Evaluation(0, 50, 50, 50, 50, 50, 5)

\* Faulty variant: the default evaluation points at patch 1.
DefaultEvaluationSecondPatch == Evaluation(1, 50, 50, 50, 50, 50, 1)

\* The fixed evaluation evaluate_patches returns after its retries.
DefaultEvaluation == Evaluation(0, 50, 50, 50, 50, 50, 1)

\* Score profiles of a response: the five dimension scores and the confidence.
Profile(e, p, m, s, r, c) ==
    [effectiveness_score |-> e, preservation_score |-> p, minimality_score |-> m,
     style_coherence_score |-> s, repository_impact_score |-> r,
     overall_confidence |-> c]

\* total 7.15, confidence 0.9
StrongConfident == Profile(80, 70, 60, 60, 70, 9)
\* total 7.15, confidence 0.1
StrongUnsure == Profile(80, 70, 60, 60, 70, 1)
\* total 5.0 as the default evaluation has it, confidence 0.9
PlainConfident == Profile(50, 50, 50, 50, 50, 9)

\* What one self.model.invoke may return for n patches: any patch_index,
\* in range or just outside it, with one of the profiles.
ModelResponses(n) ==
    {Evaluation(i, o.effectiveness_score, o.preservation_score, o.minimality_score,
                o.style_coherence_score, o.repository_impact_score,
                o.overall_confidence) : i \in -1..n, o \in model_outputs}

\* Faulty variant: the upper end of the range is accepted.
ValidIndexUpToLen(response, patches) ==
    0 <= response.patch_index /\ response.patch_index <= Len(patches)

\* evaluate_patches: "if 0 <= response.patch_index < len(patches)"
ValidIndex(response, patches) ==
    0 <= response.patch_index /\ response.patch_index < Len(patches)

(***************************************************************************)
(* collections.Counter                                                     *)
(***************************************************************************)
CounterKeys(c) == {c[i].key : i \in DOMAIN c}

\* Faulty variant: the count is set, not incremented.
CounterAddSetsOne(c, k) ==
    IF k \in CounterKeys(c)
    THEN [i \in DOMAIN c |-> IF c[i].key = k THEN [key |-> k, count |-> 1] ELSE c[i]]
    ELSE Append(c, [key |-> k, count |-> 1])

\* vote_counter[k] += 1
CounterAdd(c, k) ==
    IF k \in CounterKeys(c)
    THEN [i \in DOMAIN c |->
            IF c[i].key = k THEN [key |-> k, count |-> c[i].count + 1] ELSE c[i]]
    ELSE Append(c, [key |-> k, count |-> 1])

CounterValues(c) == [i \in DOMAIN c |-> c[i].count]

\* vote_counter.most_common(1)[0][1]
MostCommonCount(c) == SeqMax(CounterValues(c))

\* vote_counter.most_common(2)[1][1]: the count in second position of the
\* entries sorted by descending count (equal to the first on a tie).
SecondCommonCount(c) ==
    LET first == CHOOSE i \in DOMAIN c :
                    /\ c[i].count = MostCommonCount(c)
                    /\ \A j \in DOMAIN c : c[j].count = MostCommonCount(c) => i <= j
        rest  == SelectSeq([i \in DOMAIN c |-> [pos |-> i, count |-> c[i].count]],
                           LAMBDA e : e.pos # first)
    IN  SeqMax([i \in DOMAIN rest |-> rest[i].count])

(***************************************************************************)
(* AgentVotingNode._check_early_consensus                                  *)
(***************************************************************************)
\* Faulty variant: N // 2 in place of math.ceil(N / 2).
majority_threshold_rounded_down == num_voting_agents \div 2

majority_threshold == Ceil(num_voting_agents, 2)

min_voters_for_early_stop == Ceil(num_voting_agents * early_stopping_threshold, 10)

\* Faulty variant: more than half of the votes cast are taken for a majority.
has_majority_of_votes_cast(c) == 2 * MostCommonCount(c) > SeqSum(CounterValues(c))

\* Faulty variant: ceil(N / 2) votes are taken for a majority.
has_majority_from_half(c) == MostCommonCount(c) >= majority_threshold

has_majority(c) == MostCommonCount(c) > majority_threshold

\* Faulty variant: the participation test is strict.
sufficient_participation_strict(current_agents) ==
    current_agents > min_voters_for_early_stop

sufficient_participation(current_agents) == current_agents >= min_voters_for_early_stop

\* Faulty variant: the agents that failed are taken off.
remaining_votes_without_failed(current_agents) ==
    num_voting_agents - current_agents - Cardinality(failed_agents)

\* remaining_votes = self.num_voting_agents - current_agents
remaining_votes(current_agents) == num_voting_agents - current_agents

insurmountable_lead(c, current_agents) ==
    IF Len(c) > 1
    THEN MostCommonCount(c) > SecondCommonCount(c) + remaining_votes(current_agents)
    ELSE TRUE

\* Faulty variant: a leader ahead of second place stops the session.
_check_early_consensus_on_current_lead(c, current_agents) ==
    IF c = <<>> \/ current_agents = 0
    THEN FALSE
    ELSE /\ sufficient_participation(current_agents)
         /\ (Len(c) > 1 => MostCommonCount(c) > SecondCommonCount(c))

\* Faulty variant: a majority of the votes cast stops the session.
_check_early_consensus_on_votes_cast(c, current_agents) ==
    IF c = <<>> \/ current_agents = 0
    THEN FALSE
    ELSE /\ 2 * MostCommonCount(c) > current_agents
         /\ sufficient_participation(current_agents)

_check_early_consensus(c, current_agents) ==
    IF c = <<>> \/ current_agents = 0
    THEN FALSE
    ELSE /\ has_majority(c)
         /\ sufficient_participation(current_agents)
         /\ insurmountable_lead(c, current_agents)

(***************************************************************************)
(* AgentVotingNode._resolve_tie                                            *)
(***************************************************************************)
PatchEvals(evals, patch_idx) == SelectSeq(evals, LAMBDA ev : ev.patch_index = patch_idx)

\* candidate_stats[patch_idx]: (avg_score, avg_confidence, -patch_idx), the
\* two averages as <<sum, count>>.
CandidateStats(evals, patch_idx) ==
    LET pe == PatchEvals(evals, patch_idx)
    IN  IF pe = <<>>
        THEN [score |-> <<0, 1>>, confidence |-> <<0, 1>>, tiebreak |-> patch_idx]
        ELSE [score |-> <<SeqSum([i \in DOMAIN pe |-> get_total_score(pe[i])]), Len(pe)>>,
              confidence |-> <<SeqSum([i \in DOMAIN pe |-> pe[i].overall_confidence]), Len(pe)>>,
              tiebreak |-> -patch_idx]

QLess(a, b) == a[1] * b[2] < b[1] * a[2]
QEq(a, b)   == a[1] * b[2] = b[1] * a[2]

\* Python's tuple comparison a < b
StatsLess(a, b) ==
    \/ QLess(a.score, b.score)
    \/ QEq(a.score, b.score) /\ QLess(a.confidence, b.confidence)
    \/ QEq(a.score, b.score) /\ QEq(a.confidence, b.confidence) /\ a.tiebreak < b.tiebreak

\* Faulty variant: the key lacks -patch_idx, so among candidates equal in
\* score and confidence max() keeps the one that got its first vote earliest.
_resolve_tie_without_index(candidates, evals) ==
    LET st(i) == [CandidateStats(evals, candidates[i]) EXCEPT !.tiebreak = 0]
        w == CHOOSE i \in DOMAIN candidates :
                /\ \A j \in DOMAIN candidates : j < i => StatsLess(st(j), st(i))
                /\ \A j \in DOMAIN candidates : j > i => ~StatsLess(st(i), st(j))
    IN  candidates[w]

\* max(candidates, key=...): the first candidate no later one beats and that
\* beats every earlier one.
_resolve_tie(candidates, evals) ==
    LET st(i) == CandidateStats(evals, candidates[i])
        w == CHOOSE i \in DOMAIN candidates :
                /\ \A j \in DOMAIN candidates : j < i => StatsLess(st(j), st(i))
                /\ \A j \in DOMAIN candidates : j > i => ~StatsLess(st(i), st(j))
    IN  candidates[w]

(***************************************************************************)
(* AgentVotingNode._calculate_consensus_metrics                            *)
(***************************************************************************)
\* Faulty variant: vote_diversity counts the votes, not the patches voted for.
_calculate_consensus_metrics_counts_votes(evals, c) ==
    LET total_votes == SeqSum(CounterValues(c))
        max_votes   == IF c # <<>> THEN SeqMax(CounterValues(c)) ELSE 0
        all_scores  == [i \in DOMAIN evals |-> get_total_score(evals[i])]
        squares     == [i \in DOMAIN evals |-> all_scores[i] * all_scores[i]]
        n           == Len(evals)
        confidences == [i \in DOMAIN evals |-> evals[i].overall_confidence]
    IN  [consensus_strength |-> IF total_votes > 0 THEN <<max_votes, total_votes>> ELSE <<0, 1>>,
         score_variance |->
             IF n > 1
             THEN <<n * SeqSum(squares) - SeqSum(all_scores) * SeqSum(all_scores), n * n>>
             ELSE <<0, 1>>,
         average_confidence |-> <<SeqSum(confidences), n>>,
         min_confidence |-> SeqMin(confidences),
         max_confidence |-> SeqMax(confidences),
         vote_diversity |-> total_votes,
         unanimous |-> total_votes = 1]

_calculate_consensus_metrics(evals, c) ==
    LET total_votes == SeqSum(CounterValues(c))
        max_votes   == IF c # <<>> THEN SeqMax(CounterValues(c)) ELSE 0
        all_scores  == [i \in DOMAIN evals |-> get_total_score(evals[i])]
        squares     == [i \in DOMAIN evals |-> all_scores[i] * all_scores[i]]
        n           == Len(evals)
        confidences == [i \in DOMAIN evals |-> evals[i].overall_confidence]
    IN  [consensus_strength |-> IF total_votes > 0 THEN <<max_votes, total_votes>> ELSE <<0, 1>>,
         score_variance |->
             IF n > 1
             THEN <<n * SeqSum(squares) - SeqSum(all_scores) * SeqSum(all_scores), n * n>>
             ELSE <<0, 1>>,
         average_confidence |-> <<SeqSum(confidences), n>>,
         min_confidence |-> SeqMin(confidences),
         max_confidence |-> SeqMax(confidences),
         vote_diversity |-> Len(c),
         unanimous |-> Len(c) = 1]

(***************************************************************************)
(* AgentVotingNode._aggregate_votes                                        *)
(***************************************************************************)
\* Faulty variant: every patch with a vote is a candidate.
winner_candidates_unfiltered(c) == [i \in DOMAIN c |-> c[i].key]

winner_candidates(c) ==
    LET tied == SelectSeq(c, LAMBDA e : e.count = MostCommonCount(c))
    IN  [i \in DOMAIN tied |-> tied[i].key]

_aggregate_votes(evals, c, patches, early_stopped) ==
    LET cands  == winner_candidates(c)
        winner == IF Len(cands) = 1 THEN cands[1] ELSE _resolve_tie(cands, evals)
    IN  [selected_patch_index |-> winner,
         selected_patch_content |-> patches[winner + 1],
         vote_distribution |-> c,
         agent_evaluations |-> evals,
         consensus_metrics |-> _calculate_consensus_metrics(evals, c),
         total_voters |-> Len(evals),
         early_stopped |-> early_stopped]

(***************************************************************************)
(* AgentVotingNode._create_single_patch_result, after its evaluation       *)
(***************************************************************************)
\* Faulty variant: early_stopped is computed as on the general path.
_create_single_patch_result_counts_agents(single_patch, evaluation) ==
    [selected_patch_index |-> 0,
     selected_patch_content |-> single_patch,
     vote_distribution |-> <<[key |-> 0, count |-> 1]>>,
     agent_evaluations |-> <<evaluation>>,
     consensus_metrics |-> [consensus_strength |-> <<1, 1>>, unanimous |-> TRUE],
     total_voters |-> 1,
     early_stopped |-> 1 < num_voting_agents]

_create_single_patch_result(single_patch, evaluation) ==
    [selected_patch_index |-> 0,
     selected_patch_content |-> single_patch,
     vote_distribution |-> <<[key |-> 0, count |-> 1]>>,
     agent_evaluations |-> <<evaluation>>,
     consensus_metrics |-> [consensus_strength |-> <<1, 1>>, unanimous |-> TRUE],
     total_voters |-> 1,
     early_stopped |-> FALSE]

(***************************************************************************)
(* Control flow                                                            *)
(*   pc = "graph"         before patch_normalization_node (its __call__)   *)
(*   pc = "voting"        before agent_voting_node (AgentVotingNode.__call__) *)
(*   pc = "execute"       before a direct execute_parallel_voting call     *)
(*   pc = "loop"          general path, at the head of the for loop        *)
(*   pc = "invoke"        general path, in evaluate_patches' retry loop    *)
(*   pc = "single_invoke" fast path, in evaluate_patches' retry loop       *)
(*   pc = "after_loop"    general path, behind the for loop                *)
(*   pc = "metrics"       before a _calculate_complexity_score call        *)
(*   pc = "done"          the call has returned or raised                  *)
(***************************************************************************)
\* How a session is entered.
\*   "graph": EnhancedIssueNotVerifiedBugSubgraph routes to "start_voting",
\*     patch_normalization_node then agent_voting_node; _routing_logic takes
\*     this way with two or more patches only.
\*   "__call__": AgentVotingNode.__call__ on a state without normalized_patches.
\*   "execute_parallel_voting": the method is called itself.
\* The last two differ from the first only in who receives an exception, so
\* they are explored for the lists the graph does not bring to the node.
Entries(patches) ==
    IF Len(patches) >= 2 THEN {"graph"} ELSE {"__call__", "execute_parallel_voting"}

\* Nothing has run yet.
NothingRun ==
    /\ normalized_patches = <<>>
    /\ agent_idx = 0
    /\ try_index = 0
    /\ agent_evaluations = <<>>
    /\ vote_counter = <<>>
    /\ voting_result = <<>>
    /\ raised = "none"
    /\ node_output = <<>>
    /\ presented = <<>>
    /\ evaluated_by = <<>>
    /\ failed_agents = {}
    /\ defaulted_agents = {}
    /\ model_invocations = 0
    /\ consensus_checks = 0
    /\ broke = FALSE
    /\ complexity_score = <<>>

\* Where the caller's interface starts.
EntryPc(e) ==
    CASE e \in {"graph", "patch_normalization_node"} -> "graph"
      [] e = "_calculate_complexity_score" -> "metrics"
      [] e = "__call__" -> "voting"
      [] OTHER -> "execute"

Init ==
    /\ edit_patches \in SessionPatchLists
    /\ entry \in Entries(edit_patches)
    /\ pc = EntryPc(entry)
    /\ num_voting_agents \in 1..MaxAgents
    /\ enable_early_stopping \in BOOLEAN
    /\ early_stopping_threshold \in
         IF enable_early_stopping THEN Thresholds ELSE {default_threshold}
    /\ model_outputs = {StrongConfident}
    /\ first_run = <<>>
    /\ metrics_args = <<>>
    /\ NothingRun

\* What no step of a voting session writes.
config_vars == <<edit_patches, entry, num_voting_agents,
                 early_stopping_threshold, enable_early_stopping,
                 model_outputs, first_run, metrics_args, complexity_score>>

session_vars == <<agent_idx, try_index, agent_evaluations, vote_counter, voting_result,
                  raised, node_output, presented, evaluated_by, failed_agents,
                  defaulted_agents, model_invocations, consensus_checks, broke>>

\* PatchNormalizationNode.__call__ as the graph node in front of the voting
\* node: it returns normalized_patches and leaves edit_patches as they are.
PatchNormalizationCall ==
    /\ pc = "graph"
    /\ normalized_patches' = PatchNormalization(edit_patches)
    /\ pc' = "voting"
    /\ UNCHANGED session_vars
    /\ UNCHANGED config_vars

\* The dict AgentVotingNode.__call__ returns has the keys final_patch,
\* voting_result, selected_patch_index and error; a key that is absent, or
\* None, is <<>> and a present one <<value>>.  final_patch is a text, "" is <<>>.

\* execute_parallel_voting is left by an exception: it propagates to a direct
\* caller; AgentVotingNode.__call__ catches it and falls back to patches[0].
Raise(exc) ==
    /\ pc' = "done"
    /\ raised' = exc
    /\ voting_result' = <<>>
    /\ node_output' =
         IF entry # "execute_parallel_voting"
         THEN <<[final_patch |-> edit_patches[1],
                 voting_result |-> <<>>,
                 selected_patch_index |-> <<0>>,
                 error |-> <<exc>>]>>
         ELSE <<>>

\* execute_parallel_voting returns result.
Return(result) ==
    /\ pc' = "done"
    /\ raised' = "none"
    /\ voting_result' = <<result>>
    /\ node_output' =
         IF entry # "execute_parallel_voting"
         THEN <<[final_patch |-> result.selected_patch_content,
                 voting_result |-> <<result>>,
                 selected_patch_index |-> <<result.selected_patch_index>>,
                 error |-> <<>>]>>
         ELSE <<>>

\* execute_parallel_voting: "if not patches: raise ValueError(...)"
EnterEmpty ==
    /\ Raise("ValueError")
    /\ UNCHANGED <<agent_idx, try_index, agent_evaluations, vote_counter,
                   presented, evaluated_by, failed_agents, defaulted_agents,
                   model_invocations, consensus_checks, broke>>

\* execute_parallel_voting: "if len(patches) == 1": _create_single_patch_result
\* up to the retry loop of its evaluate_patches call.  format_ok:
\* format_human_message returns (it runs outside every try of
\* evaluate_patches, and nothing here catches its exception).
EnterSingle(format_ok) ==
    /\ presented' = <<edit_patches[1]>>
    /\ evaluated_by' = Append(evaluated_by, 0)
    /\ model_invocations' = 0
    /\ IF format_ok
       THEN /\ pc' = "single_invoke"
            /\ try_index' = 0
            /\ UNCHANGED <<voting_result, raised, node_output, failed_agents>>
       ELSE /\ Raise("Exception")
            /\ failed_agents' = failed_agents \cup {0}
            /\ UNCHANGED try_index
    /\ UNCHANGED <<agent_idx, agent_evaluations, vote_counter, defaulted_agents,
                   consensus_checks, broke>>

\* execute_parallel_voting: the general path up to its for loop.
EnterGeneral ==
    /\ pc' = "loop"
    /\ agent_idx' = 0
    /\ agent_evaluations' = <<>>
    /\ vote_counter' = <<>>
    /\ UNCHANGED <<try_index, voting_result, raised, node_output, presented,
                   evaluated_by, failed_agents, defaulted_agents,
                   model_invocations, consensus_checks, broke>>

\* Faulty variant: the guard against an empty patch list is missing.
EnterExecuteWithoutEmptyCheck(format_ok) ==
    IF Len(edit_patches) = 1 THEN EnterSingle(format_ok) ELSE EnterGeneral

\* The body of execute_parallel_voting up to its first evaluate_patches call.
EnterExecute(format_ok) ==
    IF edit_patches = <<>> THEN EnterEmpty
    ELSE IF Len(edit_patches) = 1 THEN EnterSingle(format_ok)
    ELSE EnterGeneral

\* AgentVotingNode.__call__
AgentVotingCall ==
    /\ pc = "voting"
    /\ IF edit_patches = <<>>
       THEN /\ pc' = "done"
            /\ node_output' = <<[final_patch |-> <<>>,
                                 voting_result |-> <<>>,
                                 selected_patch_index |-> <<>>,
                                 error |-> <<>>]>>
            /\ UNCHANGED <<agent_idx, try_index, agent_evaluations, vote_counter,
                           voting_result, raised, presented, evaluated_by,
                           failed_agents, defaulted_agents, model_invocations,
                           consensus_checks, broke>>
       ELSE \E format_ok \in BOOLEAN : EnterExecute(format_ok)
    /\ UNCHANGED <<config_vars, normalized_patches>>

\* A caller invokes execute_parallel_voting itself.
ExecuteParallelVoting ==
    /\ pc = "execute"
    /\ \E format_ok \in BOOLEAN : EnterExecute(format_ok)
    /\ UNCHANGED <<config_vars, normalized_patches>>

\* The position behind the loop body of agent idx.
NextPc(idx) == IF idx + 1 < num_voting_agents THEN "loop" ELSE "after_loop"

\* Faulty variant: a failed agent ends the loop.
EvaluateRaisedBreaks ==
    /\ failed_agents' = failed_agents \cup {agent_idx}
    /\ agent_idx' = agent_idx + 1
    /\ pc' = "after_loop"
    /\ UNCHANGED try_index

\* "except Exception as e: ... continue": the agent is skipped.
EvaluateRaised ==
    /\ failed_agents' = failed_agents \cup {agent_idx}
    /\ agent_idx' = agent_idx + 1
    /\ pc' = NextPc(agent_idx)
    /\ UNCHANGED try_index

\* General path, one iteration of "for agent_config in self.agent_configs" up
\* to the retry loop of evaluate_patches; an exception of evaluate_patches is
\* caught by the coordinator, which continues with the next agent.
Dispatch ==
    /\ pc = "loop"
    /\ agent_idx < num_voting_agents
    /\ presented' = edit_patches
    /\ evaluated_by' = Append(evaluated_by, agent_idx)
    /\ model_invocations' = 0
    /\ \E format_ok \in BOOLEAN :
         IF format_ok
         THEN /\ pc' = "invoke"
              /\ try_index' = 0
              /\ UNCHANGED <<agent_idx, failed_agents>>
         ELSE EvaluateRaised
    /\ UNCHANGED <<agent_evaluations, vote_counter, voting_result, raised, node_output,
                   defaulted_agents, consensus_checks, broke>>
    /\ UNCHANGED <<config_vars, normalized_patches>>

\* Faulty variant: a true early-stopping test is logged but the loop goes on.
CommitWithoutBreak(evaluation) ==
    LET evals == Append(agent_evaluations, evaluation)
        votes == CounterAdd(vote_counter, evaluation.patch_index)
        stop  == enable_early_stopping /\ _check_early_consensus(votes, Len(evals))
    IN  /\ agent_evaluations' = evals
        /\ vote_counter' = votes
        /\ consensus_checks' = IF enable_early_stopping
                               THEN consensus_checks + 1 ELSE consensus_checks
        /\ broke' = stop
        /\ pc' = NextPc(agent_idx)
        /\ agent_idx' = agent_idx + 1
        /\ UNCHANGED <<voting_result, raised, node_output>>

\* evaluate_patches has returned evaluation to the coordinator's loop body:
\* record it, count the vote, test for early consensus.
Commit(evaluation) ==
    LET evals == Append(agent_evaluations, evaluation)
        votes == CounterAdd(vote_counter, evaluation.patch_index)
        stop  == enable_early_stopping /\ _check_early_consensus(votes, Len(evals))
    IN  /\ agent_evaluations' = evals
        /\ vote_counter' = votes
        /\ consensus_checks' = IF enable_early_stopping
                               THEN consensus_checks + 1 ELSE consensus_checks
        /\ broke' = stop
        /\ IF stop
           THEN /\ pc' = "after_loop"
                /\ UNCHANGED agent_idx
           ELSE /\ pc' = NextPc(agent_idx)
                /\ agent_idx' = agent_idx + 1
        /\ UNCHANGED <<voting_result, raised, node_output>>

\* evaluate_patches has returned evaluation to _create_single_patch_result.
CommitSingle(evaluation) ==
    /\ Return(_create_single_patch_result(edit_patches[1], evaluation))
    /\ UNCHANGED <<agent_idx, agent_evaluations, vote_counter, consensus_checks, broke>>

Deliver(evaluation) ==
    IF pc = "invoke" THEN Commit(evaluation) ELSE CommitSingle(evaluation)

\* Faulty variant: a failed attempt is not counted, so the loop goes on as
\* long as the attempts fail.
FailedAttemptWithoutCounting ==
    /\ try_index' = try_index
    /\ UNCHANGED <<pc, agent_idx, agent_evaluations, vote_counter, voting_result,
                   raised, node_output, defaulted_agents, consensus_checks, broke>>

\* An attempt of the retry loop failed: next attempt, or the default
\* evaluation when that was the last one.
FailedAttempt ==
    IF try_index + 1 < max_retries
    THEN /\ try_index' = try_index + 1
         /\ UNCHANGED <<pc, agent_idx, agent_evaluations, vote_counter, voting_result,
                        raised, node_output, defaulted_agents, consensus_checks, broke>>
    ELSE /\ try_index' = try_index + 1
         /\ defaulted_agents' = defaulted_agents \cup {agent_idx}
         /\ Deliver(DefaultEvaluation)

\* evaluate_patches: self.model.invoke returns a response.
InvokeReturns ==
    /\ pc \in {"invoke", "single_invoke"}
    /\ try_index < max_retries
    /\ model_invocations' = model_invocations + 1
    /\ \E response \in ModelResponses(Len(presented)) :
         IF ValidIndex(response, presented)
         THEN /\ Deliver(response)
              /\ UNCHANGED <<try_index, defaulted_agents>>
         ELSE FailedAttempt
    /\ UNCHANGED <<presented, evaluated_by, failed_agents>>
    /\ UNCHANGED <<config_vars, normalized_patches>>

\* evaluate_patches: self.model.invoke raises.
InvokeRaises ==
    /\ pc \in {"invoke", "single_invoke"}
    /\ try_index < max_retries
    /\ model_invocations' = model_invocations + 1
    /\ FailedAttempt
    /\ UNCHANGED <<presented, evaluated_by, failed_agents>>
    /\ UNCHANGED <<config_vars, normalized_patches>>

\* Faulty variant: without evaluations the first patch is returned.
AfterLoopFallsBack ==
    /\ pc = "after_loop"
    /\ IF agent_evaluations = <<>>
       THEN Return(_create_single_patch_result(edit_patches[1], DefaultEvaluation))
       ELSE Return(_aggregate_votes(agent_evaluations, vote_counter, edit_patches,
                                    Len(agent_evaluations) < num_voting_agents))
    /\ UNCHANGED <<agent_idx, try_index, agent_evaluations, vote_counter, presented,
                   evaluated_by, failed_agents, defaulted_agents, model_invocations,
                   consensus_checks, broke>>
    /\ UNCHANGED <<config_vars, normalized_patches>>

\* Faulty variant: among the patches with the most votes any one is selected,
\* as iterating an unordered collection would.
AfterLoopSelectsAnyLeader ==
    /\ pc = "after_loop"
    /\ IF agent_evaluations = <<>>
       THEN Raise("RuntimeError")
       ELSE \E i \in DOMAIN winner_candidates(vote_counter) :
              LET w == winner_candidates(vote_counter)[i]
              IN  Return([_aggregate_votes(agent_evaluations, vote_counter, edit_patches,
                                           Len(agent_evaluations) < num_voting_agents)
                             EXCEPT !.selected_patch_index = w,
                                    !.selected_patch_content = edit_patches[w + 1]])
    /\ UNCHANGED <<agent_idx, try_index, agent_evaluations, vote_counter, presented,
                   evaluated_by, failed_agents, defaulted_agents, model_invocations,
                   consensus_checks, broke>>
    /\ UNCHANGED <<config_vars, normalized_patches>>

\* Faulty variant: early_stopped tells whether the loop was left by break.
AfterLoopReportsBreak ==
    /\ pc = "after_loop"
    /\ IF agent_evaluations = <<>>
       THEN Raise("RuntimeError")
       ELSE Return(_aggregate_votes(agent_evaluations, vote_counter, edit_patches,
                                    broke /\ agent_idx + 1 < num_voting_agents))
    /\ UNCHANGED <<agent_idx, try_index, agent_evaluations, vote_counter, presented,
                   evaluated_by, failed_agents, defaulted_agents, model_invocations,
                   consensus_checks, broke>>
    /\ UNCHANGED <<config_vars, normalized_patches>>

\* execute_parallel_voting behind the loop.
AfterLoop ==
    /\ pc = "after_loop"
    /\ IF agent_evaluations = <<>>
       THEN Raise("RuntimeError")
       ELSE Return(_aggregate_votes(agent_evaluations, vote_counter, edit_patches,
                                    Len(agent_evaluations) < num_voting_agents))
    /\ UNCHANGED <<agent_idx, try_index, agent_evaluations, vote_counter, presented,
                   evaluated_by, failed_agents, defaulted_agents, model_invocations,
                   consensus_checks, broke>>
    /\ UNCHANGED <<config_vars, normalized_patches>>

Next ==
    \/ PatchNormalizationCall
    \/ AgentVotingCall
    \/ ExecuteParallelVoting
    \/ Dispatch
    \/ InvokeReturns
    \/ InvokeRaises
    \/ AfterLoop

Spec == Init /\ [][Next]_vars

(***************************************************************************)
(* Sessions whose evaluators differ in their scores and confidence: two or *)
(* three different patches, up to MaxTieAgents agents, no early stopping   *)
(* (a session that stops early has a single leader).                       *)
(***************************************************************************)
TieBreakInit ==
    /\ edit_patches \in {PatchList(2, 2), PatchList(3, 0)}
    /\ entry \in {"graph", "execute_parallel_voting"}
    /\ pc = EntryPc(entry)
    /\ num_voting_agents \in 1..MaxTieAgents
    /\ enable_early_stopping = FALSE
    /\ early_stopping_threshold = default_threshold
    /\ model_outputs = {StrongUnsure, PlainConfident}
    /\ first_run = <<>>
    /\ metrics_args = <<>>
    /\ NothingRun

TieBreakSpec == TieBreakInit /\ [][Next]_vars

(***************************************************************************)
(* Two sessions of one AgentVotingNode on the same state, one behind the   *)
(* other, the second with the per-agent outcomes of the first.             *)
(***************************************************************************)
\* The outcome of every evaluate_patches call of the session so far, in call
\* order: <<"returned", evaluation>>, <<"failure">> when it raised,
\* <<"pending">> while it runs.
OutcomeLog ==
    [i \in DOMAIN evaluated_by |->
        LET returned == Cardinality({j \in 1..i : evaluated_by[j] \notin failed_agents})
            evals    == IF voting_result # <<>>
                        THEN voting_result[1].agent_evaluations ELSE agent_evaluations
        IN  IF evaluated_by[i] \in failed_agents THEN <<"failure">>
            ELSE IF returned <= Len(evals) THEN <<"returned", evals[returned]>>
            ELSE <<"pending">>]

\* The session so far has had the outcomes of the first session.
FollowsFirstRun ==
    first_run # <<>> =>
        /\ Len(OutcomeLog) <= Len(first_run[1].outcomes)
        /\ \A i \in DOMAIN OutcomeLog :
             \/ OutcomeLog[i] = <<"pending">>
             \/ OutcomeLog[i] = first_run[1].outcomes[i]

\* The caller keeps what the session did and runs the node again on the
\* same state: execute_parallel_voting starts from fresh locals.
RunAgain ==
    /\ pc = "done"
    /\ first_run = <<>>
    /\ first_run' = <<[outcomes |-> OutcomeLog,
                       voting_result |-> voting_result,
                       raised |-> raised,
                       node_output |-> node_output]>>
    /\ pc' = EntryPc(entry)
    /\ normalized_patches' = <<>>
    /\ agent_idx' = 0
    /\ try_index' = 0
    /\ agent_evaluations' = <<>>
    /\ vote_counter' = <<>>
    /\ voting_result' = <<>>
    /\ raised' = "none"
    /\ node_output' = <<>>
    /\ presented' = <<>>
    /\ evaluated_by' = <<>>
    /\ failed_agents' = {}
    /\ defaulted_agents' = {}
    /\ model_invocations' = 0
    /\ consensus_checks' = 0
    /\ broke' = FALSE
    /\ complexity_score' = <<>>
    /\ UNCHANGED <<edit_patches, entry, num_voting_agents, early_stopping_threshold,
                   enable_early_stopping, model_outputs, metrics_args>>

SessionStep == Next /\ FollowsFirstRun'

RerunInit ==
    /\ edit_patches \in {PatchList(n, 2) : n \in 0..2}
    /\ entry \in Entries(edit_patches) \cup {"execute_parallel_voting"}
    /\ pc = EntryPc(entry)
    /\ num_voting_agents \in 1..MaxTieAgents
    /\ enable_early_stopping \in BOOLEAN
    /\ early_stopping_threshold = default_threshold
    /\ model_outputs = {StrongUnsure, PlainConfident}
    /\ first_run = <<>>
    /\ metrics_args = <<>>
    /\ NothingRun

RerunNext == SessionStep \/ RunAgain

RerunSpec == RerunInit /\ [][RerunNext]_vars

(***************************************************************************)
(* The Normalizer on its own: PatchNormalizationNode.__call__ on a state   *)
(* whose edit_patches is one diff text of up to MaxLines lines, or a list  *)
(* of up to MaxPatches patches of DedupPool.                               *)
(***************************************************************************)
\* What a line of a diff text is made of: leading whitespace, a body,
\* trailing whitespace.
LineBodies ==
    {<<"i", "n", "d", "e", "x", " ", "a", "1">>,
     <<"@", "@", " ", "-", "1", ",", "1", " ", "+", "1", ",", "1", " ", "@", "@">>,
     <<"+", "+", "+", " ", "b", "/", "f">>,
     <<"+", "+", "+", " ", "b", "/", "f", " ", "2", "0", "2", "4", "-", "0", "1", "-", "0", "1">>,
     <<"+", "x">>,
     <<"-", "y">>,
     <<"x">>,
     <<>>}
Leads == {<<>>, <<" ">>, <<"\t">>}
Trails == {<<>>, <<" ">>}
DiffLines == {lead \o body \o trail : lead \in Leads, body \in LineBodies, trail \in Trails}
DiffTexts == UNION {{join(ls) : ls \in [1..n -> DiffLines]} : n \in 1..MaxLines}

\* Patches that differ in the header timestamp only.
PatchT1 == <<"+", "+", "+", " ", "b", "/", "f", " ", "2", "0", "2", "4", "-", "0", "1", "-", "0", "1", "\n", "+", "x">>
PatchT2 == <<"+", "+", "+", " ", "b", "/", "f", " ", "2", "0", "2", "4", "-", "0", "1", "-", "0", "2", "\n", "+", "x">>
\* As large as PatchA, other content.
PatchC == <<"+", "+", "+", " ", "b", "/", "f", "\n", "+", "z">>
\* Metadata only, and whitespace only.
PatchM == <<"i", "n", "d", "e", "x", " ", "a", "1", "\n", "@", "@", " ", "-", "1", ",", "1", " ", "+", "1", ",", "1", " ", "@", "@">>
PatchW == <<" ", "\n", "\t">>
DedupPool == {PatchA, PatchA2, PatchB, PatchC, PatchT1, PatchT2, PatchM, PatchW}

RECURSIVE ListsUpTo(_, _)
ListsUpTo(pool, n) ==
    IF n = 0 THEN {<<>>}
    ELSE LET shorter == ListsUpTo(pool, n - 1)
         IN  shorter \cup {Append(l, x) : l \in {k \in shorter : Len(k) = n - 1}, x \in pool}

NormalizerInit ==
    /\ edit_patches \in {<<t>> : t \in DiffTexts} \cup ListsUpTo(DedupPool, MaxPatches)
    /\ entry = "patch_normalization_node"
    /\ pc = EntryPc(entry)
    /\ num_voting_agents = 1
    /\ enable_early_stopping = FALSE
    /\ early_stopping_threshold = default_threshold
    /\ model_outputs = {}
    /\ first_run = <<>>
    /\ metrics_args = <<>>
    /\ NothingRun

NormalizerNext == PatchNormalizationCall

NormalizerSpec == NormalizerInit /\ [][NormalizerNext]_vars

(***************************************************************************)
(* _calculate_complexity_score on its own, with the arguments              *)
(* calculate_patch_metrics gives it: total_changes is lines_added +        *)
(* lines_removed.                                                          *)
(***************************************************************************)
ComplexityInit ==
    /\ metrics_args \in [lines_added : 0..MaxChangedLines,
                          lines_removed : 0..MaxChangedLines,
                          files_modified : 0..MaxFiles]
    /\ edit_patches = <<>>
    /\ entry = "_calculate_complexity_score"
    /\ pc = EntryPc(entry)
    /\ num_voting_agents = 1
    /\ enable_early_stopping = FALSE
    /\ early_stopping_threshold = default_threshold
    /\ model_outputs = {}
    /\ first_run = <<>>
    /\ NothingRun

CalculateComplexityScore ==
    /\ pc = "metrics"
    /\ complexity_score' =
         <<_calculate_complexity_score(metrics_args.lines_added + metrics_args.lines_removed,
                                       metrics_args.files_modified,
                                       metrics_args.lines_added,
                                       metrics_args.lines_removed)>>
    /\ pc' = "done"
    /\ UNCHANGED <<session_vars, normalized_patches, edit_patches, entry,
                   num_voting_agents, early_stopping_threshold, enable_early_stopping,
                   model_outputs, first_run, metrics_args>>

ComplexityNext == CalculateComplexityScore

ComplexitySpec == ComplexityInit /\ [][ComplexityNext]_vars

(***************************************************************************)
(* Sessions configured by a preset of VotingPresets: execute_parallel_voting *)
(* on two or three different patches.                                      *)
(***************************************************************************)
\* num_voting_agents, early_stopping_threshold (tenths) and
\* enable_early_stopping of conservative, balanced, aggressive, fast and
\* disabled.
VotingPresets ==
    {[num_voting_agents |-> 3, early_stopping_threshold |-> 7, enable_early_stopping |-> TRUE],
     [num_voting_agents |-> 5, early_stopping_threshold |-> 6, enable_early_stopping |-> TRUE],
     [num_voting_agents |-> 7, early_stopping_threshold |-> 5, enable_early_stopping |-> TRUE],
     [num_voting_agents |-> 3, early_stopping_threshold |-> 7, enable_early_stopping |-> TRUE],
     [num_voting_agents |-> 1, early_stopping_threshold |-> 10, enable_early_stopping |-> FALSE]}

PresetInit ==
    /\ edit_patches \in {PatchList(2, 2), PatchList(3, 0)}
    /\ entry = "execute_parallel_voting"
    /\ pc = EntryPc(entry)
    /\ \E preset \in VotingPresets :
         /\ num_voting_agents = preset.num_voting_agents
         /\ early_stopping_threshold = preset.early_stopping_threshold
         /\ enable_early_stopping = preset.enable_early_stopping
    /\ model_outputs = {PlainConfident}
    /\ first_run = <<>>
    /\ metrics_args = <<>>
    /\ NothingRun

PresetNext ==
    \/ ExecuteParallelVoting
    \/ Dispatch
    \/ InvokeReturns
    \/ InvokeRaises
    \/ AfterLoop

PresetSpec == PresetInit /\ [][PresetNext]_vars

(***************************************************************************)
(* Sessions configured by a preset on one patch or on two, where every     *)
(* call in progress goes on: self.model.invoke returns or raises, and      *)
(* nothing else in execute_parallel_voting waits.                          *)
(***************************************************************************)
FairInit ==
    /\ edit_patches \in {PatchList(1, 0), PatchList(2, 2)}
    /\ entry = "execute_parallel_voting"
    /\ pc = EntryPc(entry)
    /\ \E preset \in VotingPresets :
         /\ num_voting_agents = preset.num_voting_agents
         /\ early_stopping_threshold = preset.early_stopping_threshold
         /\ enable_early_stopping = preset.enable_early_stopping
    /\ model_outputs = {PlainConfident}
    /\ first_run = <<>>
    /\ metrics_args = <<>>
    /\ NothingRun

FairSpec == FairInit /\ [][PresetNext]_vars /\ WF_vars(PresetNext)

(***************************************************************************)
(* A session without early stopping and then, on the same patches and with *)
(* the per-agent outcomes of the first, a session of a node that differs   *)
(* in enable_early_stopping = True only.  N and the threshold are those of *)
(* a preset.                                                               *)
(***************************************************************************)
ToggleInit ==
    /\ edit_patches \in {PatchList(2, 2)}
    /\ entry = "execute_parallel_voting"
    /\ pc = EntryPc(entry)
    /\ \E preset \in VotingPresets :
         /\ num_voting_agents = preset.num_voting_agents
         /\ early_stopping_threshold = preset.early_stopping_threshold
    /\ enable_early_stopping = FALSE
    /\ model_outputs = {PlainConfident}
    /\ first_run = <<>>
    /\ metrics_args = <<>>
    /\ NothingRun

\* The caller keeps what the session without early stopping did and calls
\* execute_parallel_voting of the node with early stopping.
RunAgainWithEarlyStopping ==
    /\ pc = "done"
    /\ first_run = <<>>
    /\ ~enable_early_stopping
    /\ first_run' = <<[outcomes |-> OutcomeLog,
                       voting_result |-> voting_result,
                       raised |-> raised,
                       node_output |-> node_output]>>
    /\ enable_early_stopping' = TRUE
    /\ pc' = EntryPc(entry)
    /\ normalized_patches' = <<>>
    /\ agent_idx' = 0
    /\ try_index' = 0
    /\ agent_evaluations' = <<>>
    /\ vote_counter' = <<>>
    /\ voting_result' = <<>>
    /\ raised' = "none"
    /\ node_output' = <<>>
    /\ presented' = <<>>
    /\ evaluated_by' = <<>>
    /\ failed_agents' = {}
    /\ defaulted_agents' = {}
    /\ model_invocations' = 0
    /\ consensus_checks' = 0
    /\ broke' = FALSE
    /\ complexity_score' = <<>>
    /\ UNCHANGED <<edit_patches, entry, num_voting_agents, early_stopping_threshold,
                   model_outputs, metrics_args>>

PresetStep == PresetNext /\ FollowsFirstRun'

ToggleNext == PresetStep \/ RunAgainWithEarlyStopping

ToggleSpec == ToggleInit /\ [][ToggleNext]_vars

(***************************************************************************)
(* Claims                                                                  *)
(***************************************************************************)
Keys(d) == {d[i].key : i \in DOMAIN d}
Count(d, k) == SeqSum([i \in DOMAIN d |-> IF d[i].key = k THEN d[i].count ELSE 0])
Largest(d) == CHOOSE n \in {d[i].count : i \in DOMAIN d} : \A i \in DOMAIN d : d[i].count <= n
Dispatched == {evaluated_by[i] : i \in DOMAIN evaluated_by}

\* C1 (as claimed): a result of the general path with early_stopped = True has
\* total_voters >= ceil(N * early_stopping_threshold).
C1_EarlyStoppedHasEnoughVoters ==
    (voting_result # <<>> /\ Len(edit_patches) >= 2 /\ voting_result[1].early_stopped)
        => voting_result[1].total_voters * 10 >= num_voting_agents * early_stopping_threshold

\* C2: the selected patch index is a key of vote_distribution, its count is
\* the largest count (so at least 1), and a sole holder of the largest count
\* is the selected index.
C2_SelectedHoldsLargestCount ==
    voting_result # <<>> =>
        LET r == voting_result[1]
            d == r.vote_distribution
        IN  /\ r.selected_patch_index \in Keys(d)
            /\ Count(d, r.selected_patch_index) = Largest(d)
            /\ Count(d, r.selected_patch_index) >= 1
            /\ \A k \in Keys(d) :
                 (\A j \in Keys(d) \ {k} : Count(d, j) < Count(d, k))
                     => r.selected_patch_index = k

C2_Witness ==
    /\ voting_result # <<>>
    /\ Len(voting_result[1].vote_distribution) >= 2
    /\ voting_result[1].selected_patch_index = 1
    /\ \A j \in Keys(voting_result[1].vote_distribution) \ {1} :
         Count(voting_result[1].vote_distribution, j)
             < Count(voting_result[1].vote_distribution, 1)

\* C3: total_voters is the number of agent_evaluations and the sum of the
\* counts of vote_distribution, on the fast path and on the general path.
C3_TotalVotersCountsEvaluations ==
    voting_result # <<>> =>
        LET r == voting_result[1]
        IN  /\ r.total_voters = Len(r.agent_evaluations)
            /\ r.total_voters = SeqSum([i \in DOMAIN r.vote_distribution |->
                                          r.vote_distribution[i].count])

C3_Witness ==
    /\ voting_result # <<>>
    /\ voting_result[1].total_voters >= 3
    /\ Len(voting_result[1].vote_distribution) >= 2
    /\ failed_agents # {}

\* C4: when evaluate_patches of an agent raises to the coordinator, the step
\* leaves vote_counter and agent_evaluations as they are and moves to the
\* next agent in order, which the loop then dispatches; behind the last agent
\* the loop ends.
C4_FailureSkipsOnlyThatAgent ==
    /\ [][(pc = "loop" /\ failed_agents' # failed_agents) =>
            /\ failed_agents' = failed_agents \cup {agent_idx}
            /\ agent_evaluations' = agent_evaluations
            /\ vote_counter' = vote_counter
            /\ IF agent_idx + 1 < num_voting_agents
               THEN pc' = "loop" /\ agent_idx' = agent_idx + 1
               ELSE pc' = "after_loop"]_vars
    /\ [](pc = "loop" => agent_idx < num_voting_agents /\ agent_idx \notin Dispatched)

C4_Witness ==
    /\ Len(edit_patches) >= 2
    /\ agent_evaluations # <<>>
    /\ \E i \in failed_agents : i + 1 \in Dispatched \ failed_agents

\* C5 (as claimed): an agent whose every attempt raised or returned an
\* out-of-range index adds no vote and no evaluation.
C5_ExhaustedAgentAddsNoVote ==
    [][(pc = "invoke" /\ defaulted_agents' # defaulted_agents) =>
         /\ vote_counter' = vote_counter
         /\ agent_evaluations' = agent_evaluations]_vars

\* C5 (amended): an agent whose every attempt raised or returned an
\* out-of-range index is not excluded: the default evaluation is recorded as
\* one more evaluation and one more vote for patch 0, no other count changes,
\* and the loop goes on to the next agent unless this was the last one or the
\* early-stopping test stops the session.
C5_ExhaustedAgentVotesForFirstPatch ==
    [][(pc = "invoke" /\ defaulted_agents' # defaulted_agents) =>
         /\ try_index' = max_retries
         /\ Len(agent_evaluations') = Len(agent_evaluations) + 1
         /\ agent_evaluations'[Len(agent_evaluations')].patch_index = 0
         /\ agent_evaluations'[Len(agent_evaluations')].overall_confidence = 1
         /\ Count(vote_counter', 0) = Count(vote_counter, 0) + 1
         /\ \A k \in Keys(vote_counter') \ {0} : Count(vote_counter', k) = Count(vote_counter, k)
         /\ \/ pc' = "loop" /\ agent_idx' = agent_idx + 1
            \/ pc' = "after_loop" /\ (agent_idx + 1 = num_voting_agents \/ broke')]_vars

C5_Witness ==
    /\ pc = "loop"
    /\ agent_idx - 1 \in defaulted_agents
    /\ Count(vote_counter, 0) >= 1
    /\ Len(vote_counter) >= 2

\* C6: when every dispatched agent failed, so that no evaluation was recorded,
\* execute_parallel_voting raises and returns no VotingResult (RuntimeError on
\* the general path, after all N agents were tried); a VotingResult always
\* rests on at least one evaluation.
C6_AllAgentsFailedRaises ==
    /\ (pc = "done" /\ evaluated_by # <<>> /\ Dispatched \subseteq failed_agents)
          => /\ raised # "none"
             /\ voting_result = <<>>
             /\ Len(edit_patches) >= 2
                  => raised = "RuntimeError" /\ Cardinality(failed_agents) = num_voting_agents
    /\ voting_result # <<>> => voting_result[1].agent_evaluations # <<>>

C6_Witness ==
    /\ pc = "done"
    /\ raised = "RuntimeError"
    /\ Cardinality(failed_agents) >= 3

\* C7: with an empty patch list no evaluator is ever invoked;
\* execute_parallel_voting raises ValueError and the node call returns an
\* empty final_patch and no voting_result.
C7_EmptyInputFailsFast ==
    edit_patches = <<>> =>
        /\ evaluated_by = <<>>
        /\ presented = <<>>
        /\ model_invocations = 0
        /\ pc = "done" =>
             IF entry = "execute_parallel_voting"
             THEN raised = "ValueError" /\ voting_result = <<>> /\ node_output = <<>>
             ELSE /\ node_output # <<>>
                  /\ node_output[1].final_patch = <<>>
                  /\ node_output[1].voting_result = <<>>
                  /\ node_output[1].error = <<>>

C7_Witness ==
    /\ edit_patches = <<>>
    /\ pc = "done"
    /\ raised = "ValueError"

\* C8: with exactly one patch only agent 0's evaluator is invoked, the
\* early-stopping test is never run, and a returned result is the fixed one,
\* whatever the evaluation and the configuration.
C8_SinglePatchResult ==
    Len(edit_patches) = 1 =>
        /\ consensus_checks = 0
        /\ evaluated_by \in {<<>>, <<0>>}
        /\ (pc = "done" /\ raised = "none") => voting_result # <<>>
        /\ voting_result # <<>> =>
             /\ evaluated_by = <<0>>
             /\ voting_result[1].selected_patch_index = 0
             /\ voting_result[1].selected_patch_content = edit_patches[1]
             /\ voting_result[1].vote_distribution = <<[key |-> 0, count |-> 1]>>
             /\ voting_result[1].total_voters = 1
             /\ voting_result[1].early_stopped = FALSE
             /\ voting_result[1].consensus_metrics.consensus_strength = <<1, 1>>
             /\ voting_result[1].consensus_metrics.unanimous = TRUE

C8_Witness ==
    /\ Len(edit_patches) = 1
    /\ voting_result # <<>>
    /\ num_voting_agents >= 3
    /\ enable_early_stopping
    /\ 0 \in defaulted_agents

\* The tally of second place, 0 when only one patch has votes.
SecondPlace == IF Len(vote_counter) > 1 THEN SecondCommonCount(vote_counter) ELSE 0

C10_EvaluatorsSeeDeduplicatedPatches ==
    (entry = "graph" /\ evaluated_by # <<>>) =>
        /\ Len(presented) = Len(normalized_patches)
        /\ \A i, j \in DOMAIN presented :
             i # j => normalize_patch(presented[i]) # normalize_patch(presented[j])

\* The evaluations of result r that voted for patch k, their number, and the
\* sums of their weighted total scores (thousandths) and confidences (tenths).
VotesFor(r, k) == SelectSeq(r.agent_evaluations, LAMBDA ev : ev.patch_index = k)
VoteCount(r, k) == Len(VotesFor(r, k))
ScoreSum(r, k) ==
    LET v == VotesFor(r, k)
    IN  SeqSum([i \in DOMAIN v |-> 35 * v[i].effectiveness_score
                                   + 30 * v[i].preservation_score
                                   + 15 * v[i].repository_impact_score
                                   + 10 * v[i].minimality_score
                                   + 10 * v[i].style_coherence_score])
ConfidenceSum(r, k) ==
    LET v == VotesFor(r, k)
    IN  SeqSum([i \in DOMAIN v |-> v[i].overall_confidence])
SameAverageScore(r, a, b) == ScoreSum(r, a) * VoteCount(r, b) = ScoreSum(r, b) * VoteCount(r, a)
HigherAverageScore(r, a, b) == ScoreSum(r, a) * VoteCount(r, b) > ScoreSum(r, b) * VoteCount(r, a)
SameAverageConfidence(r, a, b) ==
    ConfidenceSum(r, a) * VoteCount(r, b) = ConfidenceSum(r, b) * VoteCount(r, a)
HigherAverageConfidence(r, a, b) ==
    ConfidenceSum(r, a) * VoteCount(r, b) > ConfidenceSum(r, b) * VoteCount(r, a)
TiedAtTop(r) == {k \in Keys(r.vote_distribution) :
                    Count(r.vote_distribution, k) = Largest(r.vote_distribution)}

\* C11: when two or more patches share the largest vote count, the selected
\* one has, against every other of them, the higher average weighted total
\* score, or the same and the higher average confidence, or both the same
\* and the smaller index, whatever the order the votes arrived in.
C11_TieGoesToScoreConfidenceIndex ==
    (voting_result # <<>> /\ Len(edit_patches) >= 2) =>
        LET r == voting_result[1]
            w == r.selected_patch_index
        IN  \A k \in TiedAtTop(r) \ {w} :
                \/ HigherAverageScore(r, w, k)
                \/ SameAverageScore(r, w, k) /\ HigherAverageConfidence(r, w, k)
                \/ /\ SameAverageScore(r, w, k)
                   /\ SameAverageConfidence(r, w, k)
                   /\ w < k

\* An exact tie in votes, score and confidence whose first vote went to the
\* larger index, next to a third patch that lost on confidence alone.
C11_Witness ==
    /\ voting_result # <<>>
    /\ Len(edit_patches) >= 2
    /\ LET r == voting_result[1]
           w == r.selected_patch_index
       IN  /\ \E k \in TiedAtTop(r) \ {w} :
                 /\ SameAverageScore(r, w, k)
                 /\ SameAverageConfidence(r, w, k)
                 /\ r.vote_distribution[1].key = k
                 /\ w < k
           /\ \E k \in TiedAtTop(r) \ {w} :
                 /\ SameAverageScore(r, w, k)
                 /\ HigherAverageConfidence(r, w, k)
                 /\ k < w

VotedFor(r) == {r.agent_evaluations[i].patch_index : i \in DOMAIN r.agent_evaluations}

\* consensus_strength of result r is max_votes / total_votes and within [0, 1].
StrengthIsLargestShare(r) ==
    LET q     == r.consensus_metrics.consensus_strength
        total == SeqSum([i \in DOMAIN r.vote_distribution |-> r.vote_distribution[i].count])
    IN  /\ total > 0
        /\ q[1] * total = Largest(r.vote_distribution) * q[2]
        /\ q[2] > 0 /\ 0 <= q[1] /\ q[1] <= q[2]

\* C13 (as claimed): every returned VotingResult has consensus_strength =
\* max_votes / total_votes in [0, 1], a vote_diversity that is the number of
\* patch indices with a vote, and unanimous = (vote_diversity = 1).
C13_EveryResultHasTheMetrics ==
    voting_result # <<>> =>
        LET r == voting_result[1]
            m == r.consensus_metrics
        IN  /\ StrengthIsLargestShare(r)
            /\ "vote_diversity" \in DOMAIN m
            /\ m["vote_diversity"] = Cardinality(VotedFor(r))
            /\ m.unanimous <=> (m["vote_diversity"] = 1)

\* C13 (amended): a result of the general path (two or more patches) has
\* consensus_strength = max_votes / total_votes in [0, 1], vote_diversity =
\* the number of patch indices with a vote, and unanimous = (vote_diversity
\* = 1); the result of the single-patch path has the two metrics
\* consensus_strength = 1.0 and unanimous = True and no vote_diversity.
C13_MetricsOfBothPaths ==
    voting_result # <<>> =>
        LET r == voting_result[1]
            m == r.consensus_metrics
        IN  /\ StrengthIsLargestShare(r)
            /\ IF Len(edit_patches) >= 2
               THEN /\ DOMAIN m = {"consensus_strength", "score_variance",
                                   "average_confidence", "min_confidence",
                                   "max_confidence", "vote_diversity", "unanimous"}
                    /\ m.vote_diversity = Cardinality(VotedFor(r))
                    /\ m.unanimous <=> (m.vote_diversity = 1)
               ELSE /\ DOMAIN m = {"consensus_strength", "unanimous"}
                    /\ m.consensus_strength[1] = m.consensus_strength[2]
                    /\ m.unanimous

\* A result of the general path with votes for three patches.
C13_Witness ==
    /\ voting_result # <<>>
    /\ Len(edit_patches) >= 2
    /\ voting_result[1].consensus_metrics.vote_diversity = 3
    /\ ~voting_result[1].consensus_metrics.unanimous
    /\ voting_result[1].total_voters > 3

\* The evaluations recorded so far, on either path.
Recorded ==
    IF voting_result # <<>> THEN voting_result[1].agent_evaluations ELSE agent_evaluations

\* The fixed evaluation of the claim: patch_index 0, five scores of 5.0,
\* confidence 0.1.
FixedLowConfidenceEvaluation ==
    [patch_index |-> 0,
     effectiveness_score |-> 50,
     preservation_score |-> 50,
     minimality_score |-> 50,
     style_coherence_score |-> 50,
     repository_impact_score |-> 50,
     overall_confidence |-> 1]

\* A step out of the retry loop of evaluate_patches neither raises nor fails
\* the agent: it stays in the loop for the next attempt, or the call returns
\* one more evaluation, the fixed one when the last attempt has failed.
RetryLoopStepReturns ==
    pc \in {"invoke", "single_invoke"} =>
        /\ failed_agents' = failed_agents
        /\ raised' = "none"
        /\ IF pc' = pc
           THEN try_index' < max_retries /\ Recorded' = Recorded
           ELSE Len(Recorded') = Len(Recorded) + 1
        /\ (try_index' = max_retries) =>
              (pc' # pc /\ Recorded'[Len(Recorded')] = FixedLowConfidenceEvaluation)

RecordedIndicesInRange ==
    \A i \in DOMAIN Recorded :
        0 <= Recorded[i].patch_index /\ Recorded[i].patch_index < Len(edit_patches)

\* C14: a step of evaluate_patches' retry loop never raises: it goes to the
\* next attempt or returns, and when the last attempt has failed too (the
\* model raised or gave an index outside [0, number of patches)) what it
\* returns is patch_index 0, five scores of 5.0, confidence 0.1.  Every
\* evaluation it has returned has its patch_index in [0, number of patches).
C14_EvaluatorReturnsValidOrDefault ==
    [][RetryLoopStepReturns]_vars /\ []RecordedIndicesInRange

\* A session of three patches has ended in which one agent's attempts were
\* used up and another agent voted for the last patch.
C14_Witness ==
    /\ pc = "done"
    /\ voting_result # <<>>
    /\ Len(edit_patches) = 3
    /\ defaulted_agents # {}
    /\ \E i \in DOMAIN Recorded : Recorded[i].patch_index = 2

\* C15 (as claimed): normalize_patch(normalize_patch(p)) = normalize_patch(p)
\* for every diff text p given to the Normalizer, and so for every
\* normalized_content it has delivered.
C15_NormalizeIsIdempotent ==
    /\ \A i \in DOMAIN edit_patches :
         normalize_patch(normalize_patch(edit_patches[i])) = normalize_patch(edit_patches[i])
    /\ \A i \in DOMAIN normalized_patches :
         normalize_patch(normalized_patches[i].normalized_content)
             = normalized_patches[i].normalized_content

\* The Normalizer has returned.
Normalized == entry = "patch_normalization_node" /\ pc = "voting"

OccurrenceSum ==
    SeqSum([i \in DOMAIN normalized_patches |-> normalized_patches[i].metrics.occurrence_count])

\* C16 (as claimed): the occurrence_count values of the delivered patches add
\* up to the number of input patches that are not empty (here: that have a
\* character other than whitespace).
C16_OccurrencesCountNonEmptyInputs ==
    Normalized =>
        OccurrenceSum = Cardinality({i \in DOMAIN edit_patches : strip(edit_patches[i]) # <<>>})

\* C16 (amended): the occurrence_count values of the delivered patches add up
\* to the number of input patches whose normalized text is not blank; a
\* patch that is blank, or that consists of metadata lines only, is counted
\* nowhere.
C16_OccurrencesCountPatchesWithContent ==
    Normalized =>
        OccurrenceSum =
            Cardinality({i \in DOMAIN edit_patches :
                            strip(normalize_patch(edit_patches[i])) # <<>>})

\* Three input patches: two with the same normalized text, one of metadata
\* lines only.
C16_Witness ==
    /\ Normalized
    /\ Len(edit_patches) = 3
    /\ Len(normalized_patches) = 1
    /\ normalized_patches[1].metrics.occurrence_count = 2
    /\ \E i \in DOMAIN edit_patches : edit_patches[i] = PatchM

\* text with the timestamp cut from every line that starts with --- or +++.
WithoutHeaderTimestamps(text) ==
    LET lines == splitlines(text)
    IN  join([i \in DOMAIN lines |->
                 IF IsHeaderLine(lines[i]) THEN _normalize_file_path(lines[i]) ELSE lines[i]])

\* C17 (as claimed): a patch normalizes to what it normalizes to without its
\* header timestamps, so input patches that differ in header timestamps only
\* are delivered as one entry.
C17_HeaderTimestampsAreDropped ==
    Normalized =>
        /\ \A i \in DOMAIN edit_patches :
             normalize_patch(edit_patches[i])
                 = normalize_patch(WithoutHeaderTimestamps(edit_patches[i]))
        /\ \A i, j \in DOMAIN edit_patches :
             (/\ WithoutHeaderTimestamps(edit_patches[i]) = WithoutHeaderTimestamps(edit_patches[j])
              /\ strip(normalize_patch(edit_patches[i])) # <<>>)
                 => \E k \in DOMAIN normalized_patches :
                       /\ normalized_patches[k].normalized_content = normalize_patch(edit_patches[i])
                       /\ normalized_patches[k].normalized_content = normalize_patch(edit_patches[j])

\* Complexity of entry a against entry b of the delivered list.
LessComplex(a, b) ==
    a.metrics.complexity_score[1] * b.metrics.complexity_score[2]
        < b.metrics.complexity_score[1] * a.metrics.complexity_score[2]
AsComplex(a, b) ==
    a.metrics.complexity_score[1] * b.metrics.complexity_score[2]
        = b.metrics.complexity_score[1] * a.metrics.complexity_score[2]

\* C18: of two entries of the delivered list the earlier one has the larger
\* occurrence_count, or the same and the smaller complexity_score, or both
\* the same and the smaller original_index; no two entries agree in all
\* three, so the keys fix the order.
C18_DeliveredInKeyOrder ==
    Normalized =>
        \A i, j \in DOMAIN normalized_patches :
            i < j =>
                LET a == normalized_patches[i]
                    b == normalized_patches[j]
                IN  \/ a.metrics.occurrence_count > b.metrics.occurrence_count
                    \/ /\ a.metrics.occurrence_count = b.metrics.occurrence_count
                       /\ LessComplex(a, b)
                    \/ /\ a.metrics.occurrence_count = b.metrics.occurrence_count
                       /\ AsComplex(a, b)
                       /\ a.original_index < b.original_index

\* Three entries: the first two alike in count and complexity and in input
\* order, the third more complex although it came first in the input.
C18_Witness ==
    /\ Normalized
    /\ Len(normalized_patches) = 3
    /\ AsComplex(normalized_patches[1], normalized_patches[2])
    /\ normalized_patches[1].original_index = 1
    /\ normalized_patches[2].original_index = 2
    /\ normalized_patches[3].original_index = 0
    /\ LessComplex(normalized_patches[2], normalized_patches[3])

\* The score of the claim for a added lines, r removed lines and f files, as
\* <<numerator, denominator>>: with t = a + r, 0 when t = 0, else
\*   min(10, min(10, 0.1 t) * max(1, 1 + 0.2 (f - 1)) + 0.5 r / t)
\*     = min(10, (min(100, t) * (IF f < 1 THEN 10 ELSE 8 + 2 f) * t + 50 r) / (100 t))
FlooredScore(a, r, f) ==
    LET t == a + r
        multiplier10 == IF f < 1 THEN 10 ELSE 8 + 2 * f
        num == (IF t < 100 THEN t ELSE 100) * multiplier10 * t + 50 * r
    IN  IF t = 0 THEN <<0, 1>>
        ELSE IF num > 1000 * t THEN <<10, 1>> ELSE <<num, 100 * t>>

\* C19 (as claimed): what _calculate_complexity_score returns is
\* min(10, base * file_multiplier + deletion_penalty) with the multiplier
\* not below 1, lies in [0, 10], and is about 1.9667 for 10 added lines,
\* 5 removed lines and 2 files.
C19_ScoreUsesFlooredMultiplier ==
    (pc = "done" /\ complexity_score # <<>>) =>
        LET got  == complexity_score[1]
            want == FlooredScore(metrics_args.lines_added, metrics_args.lines_removed,
                                 metrics_args.files_modified)
        IN  /\ got[1] * want[2] = want[1] * got[2]
            /\ 0 <= got[1] /\ got[1] <= 10 * got[2]
            /\ (metrics_args = [lines_added |-> 10, lines_removed |-> 5, files_modified |-> 2])
                  => (19666 * got[2] <= 10000 * got[1] /\ 10000 * got[1] <= 19668 * got[2])

\* The patch indices of the recorded evaluations, in order.
VotesCast == [i \in DOMAIN agent_evaluations |-> agent_evaluations[i].patch_index]

\* The test of the claim on the tally and the number of recorded evaluations.
StopTestOfTheClaim ==
    LET current_agents == Len(agent_evaluations)
    IN  /\ 2 * Largest(vote_counter) > num_voting_agents + 1
        /\ 10 * current_agents >= num_voting_agents * early_stopping_threshold
        /\ \/ Cardinality(Keys(vote_counter)) = 1
           \/ Largest(vote_counter) > SecondPlace + (num_voting_agents - current_agents)

Undispatched == (0..(num_voting_agents - 1)) \ Dispatched

\* The tally of patch k once every undispatched agent a has done f[a]: voted
\* for patch f[a], or failed (-1).
TallyAfter(f, k) == Count(vote_counter, k) + Cardinality({a \in Undispatched : f[a] = k})

\* C21: when the general path has left its loop with agents undispatched, it
\* left by the early-stopping test, one patch alone has the most votes, and
\* it would still alone have the most whatever the undispatched agents did:
\* any of them voting for any patch, the second-placed one included, or
\* failing.  A returned result selects that patch.
C21_EarlyStopIsSound ==
    (pc \in {"after_loop", "done"} /\ Len(edit_patches) >= 2 /\ Undispatched # {}) =>
        /\ broke
        /\ \E leader \in Keys(vote_counter) :
             /\ \A f \in [Undispatched -> -1..(Len(edit_patches) - 1)] :
                  \A k \in (0..(Len(edit_patches) - 1)) \ {leader} :
                      TallyAfter(f, k) < TallyAfter(f, leader)
             /\ voting_result # <<>> => voting_result[1].selected_patch_index = leader

\* A session has stopped before its last agent with votes for two patches.
C21_Witness ==
    /\ pc = "done"
    /\ broke
    /\ Undispatched # {}
    /\ Len(vote_counter) >= 2
    /\ SecondPlace >= 1
    /\ voting_result # <<>>

\* The agents dispatched so far are 0, 1, 2, ... in this order, each once.
DispatchedInIdOrder == \A i \in DOMAIN evaluated_by : evaluated_by[i] = i - 1

\* A step of the general path that dispatches an agent dispatches agent
\* agent_idx, the next id, after every agent before it has failed or has had
\* its evaluation and vote recorded, and not after a true stopping test.
DispatchStepIsInTurn ==
    (Len(edit_patches) >= 2 /\ evaluated_by' # evaluated_by) =>
        /\ evaluated_by' = Append(evaluated_by, agent_idx)
        /\ agent_idx = Len(evaluated_by)
        /\ pc = "loop"
        /\ failed_agents \subseteq Dispatched
        /\ Len(agent_evaluations) = Cardinality(Dispatched \ failed_agents)
        /\ SeqSum(CounterValues(vote_counter)) = Len(agent_evaluations)
        /\ ~(enable_early_stopping
              /\ _check_early_consensus(vote_counter, Len(agent_evaluations)))

\* Behind the loop of a session without early stopping every agent has been
\* dispatched.
AllDispatchedWithoutEarlyStopping ==
    (~enable_early_stopping /\ Len(edit_patches) >= 2 /\ pc \in {"after_loop", "done"})
        => evaluated_by = [i \in 1..num_voting_agents |-> i - 1]

\* C22: agents are dispatched in ascending agent_id order, each at most once,
\* agent i only when every agent with a smaller id has failed or has had its
\* evaluation and vote recorded; once the early-stopping test is true with
\* early stopping enabled no further agent is dispatched; with early stopping
\* disabled the loop ends only when all N agents were dispatched.
C22_DispatchInAscendingOrder ==
    /\ []DispatchedInIdOrder
    /\ [][DispatchStepIsInTurn]_vars
    /\ []AllDispatchedWithoutEarlyStopping

\* A session of five agents stopped behind agent 3, one of whose agents had
\* used up its attempts.
C22_Witness ==
    /\ pc = "done"
    /\ enable_early_stopping
    /\ broke
    /\ num_voting_agents = 5
    /\ evaluated_by = <<0, 1, 2, 3>>
    /\ defaulted_agents # {}

\* The positions (from 1) of the input patches that normalize to text.
InputsNormalizingTo(text) ==
    {i \in DOMAIN edit_patches : normalize_patch(edit_patches[i]) = text}

InRetryLoop == pc \in {"invoke", "single_invoke"}

\* The model invocations the session can still make: max_retries for every
\* agent not yet dispatched and what is left of the call in progress.
InvocationBudget ==
    max_retries * (num_voting_agents - Len(evaluated_by))
        + (IF InRetryLoop THEN max_retries - model_invocations ELSE 0)

\* A step in the retry loop is one model invocation, made while fewer than
\* max_retries were made and every earlier one of this call failed; either
\* the attempt fails and the loop goes on, returning nothing, or the call
\* returns one evaluation and is over.  Every invocation uses up budget, and
\* no other step makes an invocation or adds budget.
InvocationStep ==
    IF InRetryLoop
    THEN /\ model_invocations < max_retries
         /\ model_invocations = try_index
         /\ model_invocations' = model_invocations + 1
         /\ IF pc' = pc
            THEN try_index' = try_index + 1 /\ Recorded' = Recorded
            ELSE ~InRetryLoop' /\ Len(Recorded') = Len(Recorded) + 1
         /\ InvocationBudget' < InvocationBudget
    ELSE /\ \/ model_invocations' = model_invocations
            \/ model_invocations' = 0 /\ evaluated_by' # evaluated_by
         /\ InvocationBudget' <= InvocationBudget

\* The budget starts at N * max_retries and is never overdrawn.
InvocationsWithinBudget ==
    /\ model_invocations <= max_retries
    /\ InvocationBudget >= 0
    /\ evaluated_by = <<>> => InvocationBudget = num_voting_agents * max_retries

\* C24: one evaluate_patches call invokes the model at most max_retries
\* times, a further time only after an attempt that failed (raised or gave
\* an index out of range), and not again once it has returned; a session
\* makes at most N * max_retries invocations, and it ends when every
\* invocation returns or raises.
C24_BoundedRetriesAndTermination ==
    /\ [][InvocationStep]_vars
    /\ []InvocationsWithinBudget
    /\ <>(pc = "done")

\* A session of seven agents has ended; one call used up its attempts, the
\* last one returned the response of its second attempt.
C24_Witness ==
    /\ pc = "done"
    /\ num_voting_agents = 7
    /\ evaluated_by = <<0, 1, 2, 3, 4, 5, 6>>
    /\ defaulted_agents # {}
    /\ 6 \notin defaulted_agents
    /\ model_invocations = max_retries
    /\ voting_result # <<>>

\* A step that evaluates the early-stopping test, on the tally and the number
\* of evaluations it is given: remaining_votes is the number of agents not
\* yet dispatched plus the number of agents that failed, so never less than
\* the former and equal to it exactly when no agent has failed; with votes
\* for two or more patches the lead counts as insurmountable exactly when the
\* leader has more votes than second place would have with the votes of the
\* undispatched agents and one more for every failed agent.
TestCountsFailedAgentsAsRemaining ==
    consensus_checks' = consensus_checks + 1 =>
        LET current     == Len(agent_evaluations')
            remaining   == remaining_votes(current)
            still_to_go == Cardinality(Undispatched')
            failed      == Cardinality(failed_agents')
        IN  /\ remaining >= still_to_go
            /\ remaining = still_to_go + failed
            /\ (remaining = still_to_go) <=> (failed_agents' = {})
            /\ Len(vote_counter') > 1 =>
                 (insurmountable_lead(vote_counter', current)
                    <=> MostCommonCount(vote_counter')
                          > SecondCommonCount(vote_counter') + still_to_go + failed)

\* C25: at every evaluation of the early-stopping test remaining_votes =
\* N - current_agents is at least the number of agents not yet dispatched,
\* equal to it exactly when no dispatched agent has failed, and larger by one
\* for every failed agent, whose vote the lead test gives to second place.
C25_RemainingCountsFailedAgents == [][TestCountsFailedAgentsAsRemaining]_vars

\* The test has run with two agents failed and one still to go: the leader
\* is ahead of second place plus the undispatched agent, but not of second
\* place plus remaining_votes.
C25_Witness ==
    /\ pc = "loop"
    /\ enable_early_stopping
    /\ consensus_checks = Len(agent_evaluations)
    /\ Cardinality(failed_agents) = 2
    /\ Cardinality(Undispatched) = 1
    /\ agent_idx - 1 \notin failed_agents
    /\ Len(vote_counter) >= 2
    /\ MostCommonCount(vote_counter) > SecondCommonCount(vote_counter) + 1
    /\ ~insurmountable_lead(vote_counter, Len(agent_evaluations))

\* C26: in every state of the general path with a vote in the tally,
\* has_majority implies insurmountable_lead for the tally and the number of
\* evaluations recorded: when the leader has more than ceil(N / 2) votes it
\* has more than second place plus N - current_agents, whether agents have
\* failed or not; so the early-stopping test is true exactly when
\* has_majority and sufficient_participation are.
C26_MajorityImpliesLead ==
    (Len(edit_patches) >= 2 /\ vote_counter # <<>>) =>
        LET current == Len(agent_evaluations)
        IN  /\ has_majority(vote_counter) => insurmountable_lead(vote_counter, current)
            /\ 2 * Largest(vote_counter) > num_voting_agents + 1
                  => Largest(vote_counter) > SecondPlace + (num_voting_agents - current)
            /\ _check_early_consensus(vote_counter, current)
                  <=> (has_majority(vote_counter) /\ sufficient_participation(current))

\* The leader has a majority over a second-placed patch while an agent has
\* failed and remaining_votes is not 0.
C26_Witness ==
    /\ Len(edit_patches) >= 2
    /\ Len(vote_counter) >= 2
    /\ has_majority(vote_counter)
    /\ failed_agents # {}
    /\ num_voting_agents - Len(agent_evaluations) >= 1

\* C27: a session with early stopping whose agents have the outcomes (vote
\* or failure) that the agents with the same ids had in a session without
\* early stopping on the same patches ends as that one did: it raises when
\* that one raised, and else returns the same selected_patch_index.
C27_EarlyStoppingKeepsTheDecision ==
    (first_run # <<>> /\ pc = "done") =>
        /\ enable_early_stopping
        /\ raised = first_run[1].raised
        /\ (voting_result = <<>>) <=> (first_run[1].voting_result = <<>>)
        /\ voting_result # <<>> =>
             voting_result[1].selected_patch_index
                 = first_run[1].voting_result[1].selected_patch_index

\* The session with early stopping has stopped before its last agent, which
\* in the session without early stopping voted for another patch than the
\* selected one, and an agent it has dispatched failed.
C27_Witness ==
    /\ first_run # <<>>
    /\ pc = "done"
    /\ broke
    /\ voting_result # <<>>
    /\ failed_agents # {}
    /\ Len(evaluated_by) < num_voting_agents
    /\ LET last == first_run[1].outcomes[num_voting_agents]
       IN  /\ last[1] = "returned"
           /\ last[2].patch_index # voting_result[1].selected_patch_index

C29_EarlyStoppedIffFewerThanNVoters ==
    (Len(edit_patches) >= 2 /\ voting_result # <<>>) =>
        LET r == voting_result[1]
        IN  /\ r.total_voters = Len(agent_evaluations)
            /\ r.early_stopped <=> (r.total_voters < num_voting_agents)
            /\ (broke /\ Len(evaluated_by) = num_voting_agents /\ failed_agents = {})
                  => ~r.early_stopped
            /\ failed_agents # {} => r.early_stopped

\* A session without early stopping has dispatched all its agents, one of
\* them failed, and its result has early_stopped = True.
C29_Witness ==
    /\ Len(edit_patches) >= 2
    /\ voting_result # <<>>
    /\ ~enable_early_stopping
    /\ ~broke
    /\ Len(evaluated_by) = num_voting_agents
    /\ failed_agents # {}
    /\ voting_result[1].early_stopped

\* Every agent dispatched so far got nothing in range from the model, on any
\* attempt, and no evaluate_patches call raised.
AllDispatchedDefaulted ==
    /\ evaluated_by # <<>>
    /\ Dispatched = defaulted_agents
    /\ failed_agents = {}

\* C30: when on every attempt of every dispatched agent the model raised or
\* gave an index out of range, and no evaluate_patches call raised,
\* execute_parallel_voting does not raise: its result has one default
\* evaluation per dispatched agent, each a vote for patch 0 with confidence
\* 0.1, all votes on index 0, patch 0 selected and unanimous = True.
C30_AllDefaultsSelectFirstPatch ==
    (pc = "done" /\ AllDispatchedDefaulted) =>
        /\ raised = "none"
        /\ voting_result # <<>>
        /\ LET r == voting_result[1]
           IN  /\ r.selected_patch_index = 0
               /\ r.selected_patch_content = edit_patches[1]
               /\ r.vote_distribution = <<[key |-> 0, count |-> Len(evaluated_by)]>>
               /\ r.total_voters = Len(evaluated_by)
               /\ Len(r.agent_evaluations) = Len(evaluated_by)
               /\ \A i \in DOMAIN r.agent_evaluations :
                    /\ r.agent_evaluations[i].patch_index = 0
                    /\ r.agent_evaluations[i].overall_confidence = 1
               /\ r.consensus_metrics.unanimous

\* Default votes alone have satisfied the early-stopping test: the session
\* stopped before its last agent without one response in range.
C30_Witness ==
    /\ pc = "done"
    /\ AllDispatchedDefaulted
    /\ Len(edit_patches) >= 2
    /\ enable_early_stopping
    /\ broke
    /\ Len(evaluated_by) < num_voting_agents
    /\ voting_result # <<>>
    /\ voting_result[1].early_stopped

====
